---- MODULE Spec2Model ----
(***************************************************************************)
(* Model of mne/preprocessing/infomax_cuda_.py: the infomax() entry point  *)
(* that marshals its arguments into a CUDAICA configuration and drives the *)
(* collaborator calls of mne.preprocessing.cudaica, together with the      *)
(* training run (Trainer, AnnealController, StabilityGuard, BlockSampler)  *)
(* that the collaborator performs behind process().                        *)
(*                                                                         *)
(* Real numbers are rationals <<num, den>> with den > 0.  An optional      *)
(* value is <<>> (None / unset) or <<v>>.                                  *)
(***************************************************************************)
EXTENDS Integers, Sequences, FiniteSets, TLC

VARIABLES
    \* ---- one call of infomax() ----
    args,       \* the caller's arguments (never changes during the call)
    pc,         \* position in the body of infomax()
    l_rate,     \* local l_rate   (optional rational)
    block,      \* local block    (optional integer)
    cfg,        \* the configuration object: parameter name -> optional value
    calls,      \* the collaborator calls made so far, in order
    outcome,    \* terminal state process() ended in ("none" before)
    wts,        \* the matrix transferWeightsFrom() handed back (optional)
    ret,        \* the tuple of values infomax() returned (<<>> before)
    err,        \* the exception that left infomax() ("none" if none)
    \* ---- one training run ----
    tcfg,       \* the TrainingConfig of the run (never changes)
    tstate,     \* Trainer state
    tpc,        \* position in the Training loop
    W, b,       \* weight matrix and bias vector
    snapW, snapb, \* last-known-stable snapshot
    rate,       \* current learning rate, as a rational multiple of tcfg.l_rate
    iter,       \* convergence-relevant iteration counter
    consec,     \* consecutive StabilityGuard recoveries
    attempts,   \* epochs run so far, recovered ones included
    obs,        \* what the epoch just run measured
    tresult,    \* what the run returned (optional record)
    \* ---- one BlockSampler ----
    s_cfg,      \* [n_samples, block] the sampler was built with
    s_epoch,    \* epochs sampled so far
    s_perm,     \* permutation drawn for the current epoch
    s_blocks    \* the blocks of the current epoch

wvars == <<args, pc, l_rate, block, cfg, calls, outcome, wts, ret, err>>
tvars == <<tcfg, tstate, tpc, W, b, snapW, snapb, rate, iter, consec,
           attempts, obs, tresult>>
svars == <<s_cfg, s_epoch, s_perm, s_blocks>>
vars  == <<wvars, tvars, svars>>

-----------------------------------------------------------------------------
(* Bounds of the model *)

MaxSamples == 4
MaxFeatures == 3
MaxIter == 2
MaxEpochs == 3

-----------------------------------------------------------------------------
(* Arithmetic helpers *)

None == <<>>
Some(v) == <<v>>

Max(x, y) == IF x >= y THEN x ELSE y

RMul(p, q) == <<p[1] * q[1], p[2] * q[2]>>
RHalf(p) == <<p[1], 2 * p[2]>>
RLeq(p, q) == p[1] * q[2] <= q[1] * p[2]

\* floor(10^6 * ln(k)) for k = 1..49, the values math.log takes on the
\* squares the model reaches
LnMicroTable ==
    <<0, 693147, 1098612, 1386294, 1609437, 1791759, 1945910, 2079441,
      2197224, 2302585, 2397895, 2484906, 2564949, 2639057, 2708050, 2772588,
      2833213, 2890371, 2944438, 2995732, 3044522, 3091042, 3135494, 3178053,
      3218875, 3258096, 3295836, 3332204, 3367295, 3401197, 3433987, 3465735,
      3496507, 3526360, 3555348, 3583518, 3610917, 3637586, 3663561, 3688879,
      3713572, 3737669, 3761200, 3784189, 3806662, 3828641, 3850147, 3871201,
      3891820>>

\* math.log(x) in millionths
LnMicro(x) == LnMicroTable[x]

\* int(math.floor(math.sqrt(n / 3.0))): the largest k with 3*k*k <= n
FloorSqrtThird(n) == CHOOSE k \in 0..n : 3 * k * k <= n /\ 3 * (k + 1) * (k + 1) > n

\* square matrices over 1..n, as functions of <<row, column>>
Identity(n) == [ij \in (1..n) \X (1..n) |-> IF ij[1] = ij[2] THEN 1 ELSE 0]
Ramp(n) == [ij \in (1..n) \X (1..n) |-> n * (ij[1] - 1) + ij[2]]
\* the matrix handed back as it is
Transpose_Identity(M) == M

Transpose(M) == [ij \in DOMAIN M |-> M[<<ij[2], ij[1]>>]]
WeightVals(n) == {Identity(n), Ramp(n), Transpose(Ramp(n))}

-----------------------------------------------------------------------------
(* infomax(): the arguments a caller may pass *)

LRateArgs == {None, Some(<<1, 100>>)}
BlockArgs == {None, Some(2)}
AnnealStepArgs == {<<9, 10>>, <<1, 1>>, <<3, 2>>}
ExtendedArgs == {None, Some(TRUE), Some(FALSE)}
VerboseArgs == {None, Some(FALSE), Some(TRUE)}

\* defaults of the signature
\* 1e-12, as mantissa and decimal exponent
DefaultWChange == [mant |-> 1, exp10 |-> -12]
DefaultAnnealDeg == <<60, 1>>
DefaultAnnealStep == <<9, 10>>
DefaultExtended == FALSE

ArgSets ==
    [n_samples : 1..MaxSamples, n_features : 1..MaxFeatures,
     l_rate : LRateArgs, block : BlockArgs,
     w_change : {DefaultWChange}, anneal_deg : {DefaultAnnealDeg},
     anneal_step : AnnealStepArgs, extended : ExtendedArgs,
     max_iter : 0..MaxIter, verbose : VerboseArgs]

\* the value a keyword parameter is bound to at the call
Bound(arg, default) == IF arg = None THEN default ELSE arg[1]

\* l_rate = 0.01 / math.log(n_features ** 2.0); None when the division
\* raises ZeroDivisionError
DeriveLRate(n_features) ==
    IF LnMicro(n_features * n_features) = 0 THEN None
    ELSE Some(<<10000, LnMicro(n_features * n_features)>>)

\* block = int(math.floor(math.sqrt(n_samples / 3.0)))
DeriveBlock(n_samples) == FloorSqrtThird(n_samples)

ParamNames ==
    <<"nchannels", "nsamples", "lrate", "blocksize", "nochange", "annealdeg",
      "annealstep", "maxsteps", "biasing", "extended", "sphering">>

\* the value the k-th set*Parameter call stores
ParamValue(k) ==
    CASE k = 1 -> args.n_features
      [] k = 2 -> args.n_samples
      [] k = 3 -> l_rate[1]
      [] k = 4 -> block[1]
      [] k = 5 -> args.w_change
      [] k = 6 -> args.anneal_deg
      [] k = 7 -> args.anneal_step
      [] k = 8 -> args.max_iter
      [] k = 9 -> 1
      [] k = 10 -> IF Bound(args.extended, DefaultExtended) THEN 1 ELSE 0
      [] k = 11 -> "off"

AllParams == {ParamNames[k] : k \in 1..Len(ParamNames)} \cup {"verbose"}
SetCall(name) == "set:" \o name

Called(name) == \E i \in 1..Len(calls) : calls[i] = name
NParamsSet == Cardinality({k \in 1..Len(ParamNames) : Called(SetCall(ParamNames[k]))})

WInit ==
    /\ args \in ArgSets
    /\ pc = "l_rate"
    /\ l_rate = args.l_rate
    /\ block = args.block
    /\ cfg = [p \in AllParams |-> None]
    /\ calls = <<>>
    /\ outcome = "none"
    /\ wts = None
    /\ ret = <<>>
    /\ err = "none"

\* lines 66-72
DefaultLRate ==
    /\ pc = "l_rate"
    /\ IF l_rate = None
       THEN IF DeriveLRate(args.n_features) = None
            THEN /\ pc' = "raised"
                 /\ err' = "ZeroDivisionError"
                 /\ UNCHANGED l_rate
            ELSE /\ l_rate' = DeriveLRate(args.n_features)
                 /\ pc' = "block"
                 /\ UNCHANGED err
       ELSE /\ pc' = "block"
            /\ UNCHANGED <<l_rate, err>>
    /\ UNCHANGED <<args, block, cfg, calls, outcome, wts, ret, tvars, svars>>

\* lines 74-75
DefaultBlock ==
    /\ pc = "block"
    /\ block' = IF block = None THEN Some(DeriveBlock(args.n_samples)) ELSE block
    /\ pc' = "selectDevice"
    /\ UNCHANGED <<args, l_rate, cfg, calls, outcome, wts, ret, err, tvars, svars>>

\* a collaborator call that returns normally
Step(here, name, next) ==
    /\ pc = here
    /\ calls' = Append(calls, name)
    /\ pc' = next

\* line 77
SelectDevice ==
    /\ Step("selectDevice", "selectDevice", "initDefaultConfig")
    /\ UNCHANGED <<args, l_rate, block, cfg, outcome, wts, ret, err, tvars, svars>>

\* line 78
InitDefaultConfig ==
    /\ Step("initDefaultConfig", "initDefaultConfig", "setParameter")
    /\ cfg' = [p \in AllParams |-> None]
    /\ UNCHANGED <<args, l_rate, block, outcome, wts, ret, err, tvars, svars>>

\* lines 80-92: the next set*Parameter call
SetParameter ==
    /\ pc = "setParameter"
    /\ LET k == NParamsSet + 1
       IN /\ calls' = Append(calls, SetCall(ParamNames[k]))
          /\ cfg' = [cfg EXCEPT ![ParamNames[k]] = Some(ParamValue(k))]
          /\ pc' = IF k = Len(ParamNames) THEN "verbose" ELSE "setParameter"
    /\ UNCHANGED <<args, l_rate, block, outcome, wts, ret, err, tvars, svars>>

\* lines 93-94
SetVerbose ==
    /\ pc = "verbose"
    /\ IF args.verbose = None \/ args.verbose = Some(FALSE)
       THEN /\ calls' = Append(calls, SetCall("verbose"))
            /\ cfg' = [cfg EXCEPT !["verbose"] = Some(0)]
       ELSE UNCHANGED <<calls, cfg>>
    /\ pc' = "checkDefaultConfig"
    /\ UNCHANGED <<args, l_rate, block, outcome, wts, ret, err, tvars, svars>>

\* line 97
CheckDefaultConfig ==
    /\ Step("checkDefaultConfig", "checkDefaultConfig", "printConfig")
    /\ UNCHANGED <<args, l_rate, block, cfg, outcome, wts, ret, err, tvars, svars>>

\* line 100
PrintConfig ==
    /\ Step("printConfig", "printConfig", "transfer2DDataTo")
    /\ UNCHANGED <<args, l_rate, block, cfg, outcome, wts, ret, err, tvars, svars>>

\* line 103
Transfer2DDataTo ==
    /\ Step("transfer2DDataTo", "transfer2DDataTo", "preprocess")
    /\ UNCHANGED <<args, l_rate, block, cfg, outcome, wts, ret, err, tvars, svars>>

\* line 106
Preprocess ==
    /\ Step("preprocess", "preprocess", "process")
    /\ UNCHANGED <<args, l_rate, block, cfg, outcome, wts, ret, err, tvars, svars>>

\* line 109: the training run, seen from the caller; the value process()
\* returns is discarded, a Divergent run leaves it by an exception
Process ==
    /\ pc = "process"
    /\ calls' = Append(calls, "process")
    /\ \E o \in {"Converged", "IterationLimitReached", "Divergent"} :
        /\ outcome' = o
        /\ pc' = IF o = "Divergent" THEN "raised" ELSE "postprocess"
        /\ err' = IF o = "Divergent" THEN "Divergent" ELSE err
    /\ UNCHANGED <<args, l_rate, block, cfg, wts, ret, tvars, svars>>

\* line 111
Postprocess ==
    /\ Step("postprocess", "postprocess", "transferWeightsFrom")
    /\ UNCHANGED <<args, l_rate, block, cfg, outcome, wts, ret, err, tvars, svars>>

\* line 114
TransferWeightsFrom ==
    /\ Step("transferWeightsFrom", "transferWeightsFrom", "return")
    /\ \E M \in WeightVals(args.n_features) : wts' = Some(M)
    /\ UNCHANGED <<args, l_rate, block, cfg, outcome, ret, err, tvars, svars>>

\* line 116: return wts.T
Return ==
    /\ pc = "return"
    /\ ret' = <<Transpose(wts[1])>>
    /\ pc' = "done"
    /\ UNCHANGED <<args, l_rate, block, cfg, calls, outcome, wts, err, tvars, svars>>

CallSites ==
    {"selectDevice", "initDefaultConfig", "setParameter", "checkDefaultConfig",
     "printConfig", "transfer2DDataTo", "preprocess", "process", "postprocess",
     "transferWeightsFrom"}

\* a collaborator raises; infomax() has no handler, the exception leaves it
CollaboratorRaises ==
    /\ pc \in CallSites
    /\ pc' = "raised"
    /\ err' = "CollaboratorError"
    /\ UNCHANGED <<args, l_rate, block, cfg, calls, outcome, wts, ret, tvars, svars>>

WNext ==
    \/ DefaultLRate
    \/ DefaultBlock
    \/ SelectDevice
    \/ InitDefaultConfig
    \/ SetParameter
    \/ SetVerbose
    \/ CheckDefaultConfig
    \/ PrintConfig
    \/ Transfer2DDataTo
    \/ Preprocess
    \/ Process
    \/ Postprocess
    \/ TransferWeightsFrom
    \/ Return
    \/ CollaboratorRaises

-----------------------------------------------------------------------------
(* The training run behind process(): Trainer, StabilityGuard, AnnealController *)

\* consecutive recoveries the StabilityGuard tolerates
MaxRecoveries == 2

ZeroBias(n) == [i \in 1..n |-> 0]
OnesBias(n) == [i \in 1..n |-> 1]

\* the <<W, b>> an epoch of GradientStep updates may leave behind
EpochResults(n) ==
    {<<Identity(n), OnesBias(n)>>, <<Ramp(n), ZeroBias(n)>>,
     <<Transpose(Ramp(n)), OnesBias(n)>>}

Terminal == {"Converged", "IterationLimitReached", "Divergent"}

\* the TrainingConfig infomax() forwards for the arguments a
Forwarded(a) ==
    [n_samples |-> a.n_samples, n_features |-> a.n_features,
     l_rate |-> IF a.l_rate = None THEN DeriveLRate(a.n_features)[1] ELSE a.l_rate[1],
     block |-> IF a.block = None THEN DeriveBlock(a.n_samples) ELSE a.block[1],
     anneal_step |-> a.anneal_step,
     extended |-> Bound(a.extended, DefaultExtended),
     max_iter |-> a.max_iter]

\* the arguments whose configuration reaches process()
Reaches(a) ==
    /\ a.l_rate = None => DeriveLRate(a.n_features) # None
    /\ a.block = None => DeriveBlock(a.n_samples) >= 1

\* the sample counts of the runs modelled: one too short for MaxFeatures
\* features, one long enough for any
TrainSamples == {2, MaxSamples}

NoObs == [trigger |-> "none", deltaSmall |-> FALSE, angleLarge |-> FALSE]

TInit ==
    /\ \E a \in ArgSets :
        /\ a.n_samples \in TrainSamples
        /\ Reaches(a)
        /\ tcfg = Forwarded(a)
    /\ tstate = "Initializing"
    /\ tpc = "init"
    /\ W = Identity(tcfg.n_features)
    /\ b = ZeroBias(tcfg.n_features)
    /\ snapW = W
    /\ snapb = b
    /\ rate = <<1, 1>>
    /\ iter = 0
    /\ consec = 0
    /\ attempts = 0
    /\ obs = NoObs
    /\ tresult = None

\* Initializing: validate the shape, seed W and b, snapshot them
Initialize ==
    /\ tstate = "Initializing"
    /\ IF tcfg.n_samples >= tcfg.n_features
       THEN /\ tstate' = "Training"
            /\ tpc' = "epoch"
            /\ W' = Identity(tcfg.n_features)
            /\ b' = ZeroBias(tcfg.n_features)
            /\ snapW' = W'
            /\ snapb' = b'
            /\ rate' = <<1, 1>>
            /\ UNCHANGED tresult
       ELSE /\ tstate' = "InvalidShape"
            /\ tpc' = "done"
            /\ tresult' = Some([status |-> "InvalidShape", error |-> TRUE, matrix |-> None])
            /\ UNCHANGED <<W, b, snapW, snapb, rate>>
    /\ UNCHANGED <<tcfg, iter, consec, attempts, obs, wvars, svars>>

\* what may trigger the StabilityGuard in an epoch
Triggers(extended) ==
    {"nonfinite_step", "delta_diverges"} \cup (IF extended THEN {"nonfinite_stats"} ELSE {})

\* Training: one epoch of GradientStep over the blocks (and the
\* SourceStatisticsEstimator in extended mode), then delta and the angle
RunEpoch ==
    /\ tstate = "Training"
    /\ tpc = "epoch"
    /\ attempts' = attempts + 1
    /\ \E Wb \in EpochResults(tcfg.n_features) :
        /\ W' = Wb[1]
        /\ b' = Wb[2]
    /\ \/ \E t \in Triggers(tcfg.extended) :
            obs' = [trigger |-> t, deltaSmall |-> FALSE, angleLarge |-> FALSE]
       \/ \E d \in BOOLEAN, g \in BOOLEAN :
            obs' = [trigger |-> "none", deltaSmall |-> d, angleLarge |-> g]
    /\ tpc' = "guard"
    /\ UNCHANGED <<tcfg, tstate, snapW, snapb, rate, iter, consec, tresult, wvars, svars>>

\* a recovery that halves the rate but keeps the diverged W and b
GuardRecover_KeepsW ==
    /\ tstate = "Training"
    /\ tpc = "guard"
    /\ obs.trigger # "none"
    /\ rate' = RHalf(rate)
    /\ consec' = consec + 1
    /\ IF consec + 1 > MaxRecoveries
       THEN /\ tstate' = "Divergent"
            /\ tpc' = "done"
            /\ tresult' = Some([status |-> "Divergent", error |-> TRUE, matrix |-> None])
       ELSE /\ tpc' = "epoch"
            /\ UNCHANGED <<tstate, tresult>>
    /\ UNCHANGED <<tcfg, W, b, snapW, snapb, iter, attempts, obs, wvars, svars>>

\* StabilityGuard, triggered: restore the snapshot, halve the rate, resume
\* or, past the budget, signal Divergent
GuardRecover ==
    /\ tstate = "Training"
    /\ tpc = "guard"
    /\ obs.trigger # "none"
    /\ W' = snapW
    /\ b' = snapb
    /\ rate' = RHalf(rate)
    /\ consec' = consec + 1
    /\ IF consec + 1 > MaxRecoveries
       THEN /\ tstate' = "Divergent"
            /\ tpc' = "done"
            /\ tresult' = Some([status |-> "Divergent", error |-> TRUE, matrix |-> None])
       ELSE /\ tpc' = "epoch"
            /\ UNCHANGED <<tstate, tresult>>
    /\ UNCHANGED <<tcfg, snapW, snapb, iter, attempts, obs, wvars, svars>>

\* StabilityGuard, not triggered: the epoch counts and becomes the snapshot
GuardPass ==
    /\ tstate = "Training"
    /\ tpc = "guard"
    /\ obs.trigger = "none"
    /\ snapW' = W
    /\ snapb' = b
    /\ iter' = iter + 1
    /\ consec' = 0
    /\ tpc' = "anneal"
    /\ UNCHANGED <<tcfg, tstate, W, b, rate, attempts, obs, tresult, wvars, svars>>

\* the limit tested one epoch late
Signal_LateLimit(deltaSmall, it, max_iter) ==
    IF deltaSmall THEN "Converged"
    ELSE IF it > max_iter THEN "IterationLimitReached"
    ELSE "Continue"

\* the limit tested before convergence
Signal_LimitFirst(deltaSmall, it, max_iter) ==
    IF it >= max_iter THEN "IterationLimitReached"
    ELSE IF deltaSmall THEN "Converged"
    ELSE "Continue"

\* the signal of the AnnealController's decision rule
Signal(deltaSmall, it, max_iter) ==
    IF deltaSmall THEN "Converged"
    ELSE IF it >= max_iter THEN "IterationLimitReached"
    ELSE "Continue"

\* the rate the AnnealController continues with
Annealed(r, angleLarge, anneal_step) == IF angleLarge THEN RMul(r, anneal_step) ELSE r

\* AnnealController after a full epoch
Anneal ==
    /\ tstate = "Training"
    /\ tpc = "anneal"
    /\ LET sig == Signal(obs.deltaSmall, iter, tcfg.max_iter)
       IN IF sig = "Continue"
          THEN /\ rate' = Annealed(rate, obs.angleLarge, tcfg.anneal_step)
               /\ tpc' = "epoch"
               /\ UNCHANGED <<tstate, tresult>>
          ELSE /\ tstate' = sig
               /\ tpc' = "done"
               /\ tresult' = Some([status |-> sig, error |-> FALSE,
                                   matrix |-> Some(Transpose(W))])
               /\ UNCHANGED rate
    /\ UNCHANGED <<tcfg, W, b, snapW, snapb, iter, consec, attempts, obs, wvars, svars>>

TNext ==
    \/ Initialize
    \/ RunEpoch
    \/ GuardRecover
    \/ GuardPass
    \/ Anneal

-----------------------------------------------------------------------------
(* BlockSampler *)

\* the permutations of 0..n-1, as sequences
Perms(n) ==
    {p \in [1..n -> 0..(n - 1)] : \A i, j \in 1..n : p[i] = p[j] => i = j}

\* the final partial chunk dropped
NBlocks_Floor(n, blk) == n \div blk

\* number of blocks of an epoch: ceil(n / blk)
NBlocks(n, blk) == (n + blk - 1) \div blk

\* contiguous chunks of blk indices, the final partial chunk kept
Chunks(p, blk) ==
    [k \in 1..NBlocks(Len(p), blk) |->
        SubSeq(p, (k - 1) * blk + 1, IF k * blk <= Len(p) THEN k * blk ELSE Len(p))]

SInit ==
    /\ s_cfg \in [n_samples : 1..MaxSamples, block : 1..MaxSamples]
    /\ s_epoch = 0
    /\ s_perm = <<>>
    /\ s_blocks = <<>>

\* one epoch: draw a fresh permutation and partition it
SampleEpoch ==
    /\ s_epoch < MaxEpochs
    /\ \E p \in Perms(s_cfg.n_samples) :
        /\ s_perm' = p
        /\ s_blocks' = Chunks(p, s_cfg.block)
    /\ s_epoch' = s_epoch + 1
    /\ UNCHANGED <<s_cfg, wvars, tvars>>

SNext == SampleEpoch

-----------------------------------------------------------------------------
(* Specifications *)

WIdle ==
    /\ args = [n_samples |-> 1, n_features |-> 1, l_rate |-> None, block |-> None,
               w_change |-> DefaultWChange, anneal_deg |-> DefaultAnnealDeg,
               anneal_step |-> DefaultAnnealStep, extended |-> None,
               max_iter |-> 0, verbose |-> None]
    /\ pc = "idle"
    /\ l_rate = None
    /\ block = None
    /\ cfg = [p \in AllParams |-> None]
    /\ calls = <<>>
    /\ outcome = "none"
    /\ wts = None
    /\ ret = <<>>
    /\ err = "none"

TIdle ==
    /\ tcfg = [n_samples |-> 1, n_features |-> 1, l_rate |-> <<1, 100>>, block |-> 1,
               anneal_step |-> DefaultAnnealStep, extended |-> FALSE, max_iter |-> 0]
    /\ tstate = "idle"
    /\ tpc = "idle"
    /\ W = Identity(1)
    /\ b = ZeroBias(1)
    /\ snapW = W
    /\ snapb = b
    /\ rate = <<1, 1>>
    /\ iter = 0
    /\ consec = 0
    /\ attempts = 0
    /\ obs = NoObs
    /\ tresult = None

SIdle ==
    /\ s_cfg = [n_samples |-> 1, block |-> 1]
    /\ s_epoch = 0
    /\ s_perm = <<>>
    /\ s_blocks = <<>>

\* one call of infomax()
Init == WInit /\ TIdle /\ SIdle
Next == WNext
Spec == Init /\ [][Next]_vars

\* one training run
TrainInit == WIdle /\ TInit /\ SIdle
TrainNext == TNext
TrainSpec == TrainInit /\ [][TrainNext]_vars
FairTrainSpec == TrainSpec /\ WF_vars(TrainNext)

\* one BlockSampler
SamplerInit == WIdle /\ TIdle /\ SInit
SamplerNext == SNext
SamplerSpec == SamplerInit /\ [][SamplerNext]_vars

-----------------------------------------------------------------------------
(* Properties *)

ValidShape == tcfg.n_samples >= tcfg.n_features

C2_RateNonIncreasing == [][RLeq(rate', rate)]_vars

\* C3: the AnnealController signals Converged when delta < w_change even at
\* the iteration limit, else IterationLimitReached at the limit, and only
\* otherwise anneals or keeps the rate; a terminal epoch leaves the rate
\* alone and the controller never changes W (or b).
C3_AnnealOrder ==
    [][tpc = "anneal" =>
        /\ obs.deltaSmall => tstate' = "Converged"
        /\ (~obs.deltaSmall /\ iter >= tcfg.max_iter) => tstate' = "IterationLimitReached"
        /\ (~obs.deltaSmall /\ iter < tcfg.max_iter) =>
              /\ tstate' = "Training"
              /\ obs.angleLarge => rate' = <<rate[1] * tcfg.anneal_step[1],
                                             rate[2] * tcfg.anneal_step[2]>>
              /\ ~obs.angleLarge => rate' = rate
        /\ tstate' \in Terminal => rate' = rate
        /\ W' = W
        /\ b' = b]_vars

\* Converged signalled at the iteration limit, the angle above anneal_deg
C3_Witness ==
    /\ tstate = "Converged"
    /\ iter >= tcfg.max_iter
    /\ iter >= 2
    /\ obs.angleLarge
    /\ rate # <<1, 1>>

C5_StatusReturned ==
    /\ outcome = "Divergent" => (err # "none" /\ ret = <<>>)
    /\ pc = "done" => (Len(ret) = 2 /\ ret[2] = outcome)

\* C6: with fewer samples than features nothing is derived and no
\* collaborator is called; the call fails with InvalidShape.
C6_InvalidShapeFailsFast ==
    args.n_samples < args.n_features =>
        /\ l_rate = args.l_rate
        /\ block = args.block
        /\ calls = <<>>
        /\ pc \in {"l_rate", "raised"}
        /\ pc = "raised" => err = "InvalidShape"

\* C7: on a valid shape the defaults are derived without failure, the
\* derived block is at least 1, and the configuration holds the derived
\* default or else the caller's value.
C7_DefaultsUsable ==
    args.n_samples >= args.n_features =>
        /\ err # "ZeroDivisionError"
        /\ (pc \notin {"l_rate", "block", "raised"} /\ args.block = None) => block[1] >= 1
        /\ cfg["lrate"] # None =>
              cfg["lrate"] = (IF args.l_rate = None
                              THEN Some(<<10000, LnMicro(args.n_features * args.n_features)>>)
                              ELSE args.l_rate)
        /\ cfg["blocksize"] # None =>
              cfg["blocksize"] = (IF args.block = None
                                  THEN Some(FloorSqrtThird(args.n_samples))
                                  ELSE args.block)

\* C8: when the caller leaves extended unset, the configuration receives
\* extended = 1.
C8_ExtendedDefaultsOn ==
    (args.extended = None /\ cfg["extended"] # None) => cfg["extended"] = Some(1)

IsPermutation(p, n) ==
    /\ Len(p) = n
    /\ \A i \in 0..(n - 1) : Cardinality({k \in 1..n : p[k] = i}) = 1

\* number of places <<k, j>> of the blocks that hold index i
Occurrences(blocks, i) ==
    Cardinality({kj \in (1..Len(blocks)) \X (1..Len(s_perm)) :
                    kj[2] <= Len(blocks[kj[1]]) /\ blocks[kj[1]][kj[2]] = i})

\* C9: the blocks of an epoch partition 0..n_samples-1 of a freshly drawn
\* permutation: every index is in exactly one block, every block but the
\* last holds exactly block indices, the last is non-empty and no longer.
C9_BlocksPartition ==
    s_epoch > 0 =>
        /\ IsPermutation(s_perm, s_cfg.n_samples)
        /\ \A i \in 0..(s_cfg.n_samples - 1) : Occurrences(s_blocks, i) = 1
        /\ Len(s_blocks) >= 1
        /\ \A k \in 1..(Len(s_blocks) - 1) : Len(s_blocks[k]) = s_cfg.block
        /\ Len(s_blocks[Len(s_blocks)]) \in 1..s_cfg.block
        /\ \A k \in 1..Len(s_blocks) : \A j \in 1..Len(s_blocks[k]) :
              s_blocks[k][j] = s_perm[(k - 1) * s_cfg.block + j]

\* an epoch after the first whose final chunk is a shorter block
C9_Witness ==
    /\ s_epoch >= 2
    /\ Len(s_blocks) >= 2
    /\ Len(s_blocks[Len(s_blocks)]) < s_cfg.block
    /\ s_perm[1] # 0

ListedOrder ==
    <<"selectDevice", "initDefaultConfig", "set:nchannels", "set:nsamples",
      "set:lrate", "set:blocksize", "set:nochange", "set:annealdeg",
      "set:annealstep", "set:maxsteps", "set:biasing", "set:extended",
      "set:sphering", "checkDefaultConfig", "transfer2DDataTo", "preprocess",
      "process", "postprocess", "transferWeightsFrom">>

IsListed(c) == \E i \in 1..Len(ListedOrder) : ListedOrder[i] = c

\* C10: the collaborator steps of a call happen in the listed order, each at
\* most once; the configuration is checked after the last parameter is set
\* and before the data is transferred, with biasing = 1 and sphering = off;
\* the returned matrix is the transpose of the transferred weights.
C10_CallOrder ==
    /\ LET made == SelectSeq(calls, IsListed)
       IN /\ Len(made) <= Len(ListedOrder)
          /\ made = SubSeq(ListedOrder, 1, Len(made))
    /\ Called("checkDefaultConfig") =>
          /\ \A p \in AllParams \ {"verbose"} : cfg[p] # None
          /\ cfg["biasing"] = Some(1)
          /\ cfg["sphering"] = Some("off")
          /\ \A i, j \in 1..Len(calls) :
                (calls[i] = "checkDefaultConfig" /\ calls[j] \in {SetCall(p) : p \in AllParams})
                    => j < i
    /\ pc = "done" =>
          /\ SelectSeq(calls, IsListed) = ListedOrder
          /\ Len(ret) = 1
          /\ DOMAIN ret[1] = DOMAIN wts[1]
          /\ \A ij \in DOMAIN ret[1] : ret[1][ij] = wts[1][<<ij[2], ij[1]>>]

\* a call that returned a matrix that differs from the transferred weights
C10_Witness ==
    /\ pc = "done"
    /\ Called("set:verbose")
    /\ ret[1] # wts[1]

====
